---- MODULE Spec2Model ----
(***************************************************************************)
(* Photo gallery server: upload intake and the moderation pipeline.        *)
(*                                                                         *)
(* The repository holds two revisions of the server that have a pending    *)
(* queue: src/unnamed/part_000 lines 1-562 (called "hub" below) and        *)
(* src/server.js (called "server").  The variable `variant` says which one *)
(* is deployed; every handler is modelled for both.                        *)
(*                                                                         *)
(* The store is PostgreSQL at its default isolation level READ COMMITTED:  *)
(* a statement sent through `pool.query` commits on its own, statements    *)
(* sent through one `client` between BEGIN and COMMIT are buffered in the  *)
(* transaction (field `tx` of the request) and become visible at COMMIT,   *)
(* and SELECT ... FOR UPDATE holds a row lock until COMMIT or ROLLBACK.    *)
(* A handler runs up to its next `await` in one step; handlers of          *)
(* different requests interleave at their awaits.                          *)
(*                                                                         *)
(* Specifications:                                                         *)
(*   Spec        the upload and moderation routes, two requests in flight; *)
(*   SpecApp     every route of the three revisions (the third, "first",   *)
(*               is the earliest one, part_000 from line 563 on, with no   *)
(*               moderation), one request at a time;                       *)
(*   SpecSession the token middleware, the pages, login and logout, two    *)
(*               requests in flight;                                       *)
(*   SpecLive    upload, approve, reject and account deletion, one request *)
(*               at a time, with an admin who keeps deciding and a store   *)
(*               that does not fail for ever;                              *)
(*   SpecCascade upload, approve, reject and account deletion, two         *)
(*               requests in flight;                                       *)
(*   SpecGate    login, logout and the gates of the routes, for requests   *)
(*               that carry a user_id cookie beside the device token;      *)
(*   SpecBar     the progress bar script of the page,                      *)
(*               src/public/js/toilet-app.js.                              *)
(***************************************************************************)
EXTENDS Integers, Sequences, FiniteSets, Bags, TLC

\* ---------------------------------------------------------------- bounds
MaxUploads == 1      \* blobs stored (and so pending ids issued) in one run
MaxPhotoIds == 2     \* values photos_id_seq issues in one run

\* ------------------------------------------------------- optional values
\* SQL NULL / JS null or undefined is the empty tuple, a present value v is <<v>>.
None == <<>>
Some(v) == <<v>>
Val(o) == o[1]

\* ------------------------------------------------------------ input sets
\* Device tokens (cookie device_token): dA is a device of the admin account,
\* dU of an ordinary account, dX is bound to no account.
Tokens == {"dA", "dU", "dX"}

\* multer limits.fileSize: 5 Mo
FileSizeLimit == 5 * 1024 * 1024

\* The uploaded file part: declared content type, size in bytes, and the
\* EXIF DateTimeOriginal the extractor finds in the bytes (None: no tag, or
\* the parser threw).  NoFile: the request has no file part.
NoFile == [mimetype |-> "none", size |-> 0, exif |-> None]
Files ==
  { [mimetype |-> "image/jpeg", size |-> 1,                 exif |-> Some(1700)],
    [mimetype |-> "image/png",  size |-> FileSizeLimit,     exif |-> None],
    [mimetype |-> "image/gif",  size |-> 1,                 exif |-> None],
    [mimetype |-> "image/jpeg", size |-> FileSizeLimit + 1, exif |-> Some(1700)] }

\* req.body.quest_id: undefined (None) or a string, a tuple of characters.
QuestIdInputs ==
  { None, Some(<<>>), Some(<<"1">>), Some(<<"2">>), Some(<<"3">>),
    Some(<<"x">>), Some(<<"1", "x">>) }

\* The :id of the admin routes.
PendingIds == 1..MaxUploads
PhotoIds == 1..MaxPhotoIds

\* The clients (browsers); each has at most one request outstanding.
Clients == {"c1", "c2"}

VARIABLES
  variant,          \* "hub" or "server": the revision that is deployed
  users,            \* table users: rows [id, username, password_hash, devices]
  quests,           \* table quests: rows [id, points, type, start_at,
                    \* end_at, active]
  global_progress,  \* table global_progress: rows [id, points]
  pending_photos,   \* table pending_photos (committed rows)
  photos,           \* table photos (committed rows)
  pendingSeq,       \* last value of pending_photos_id_seq
  photoSeq,         \* last value of photos_id_seq
  blobs,            \* the blob host: the public_ids [folder, name] it holds
  blobSeq,          \* names the blob host has issued
  reqs,             \* the requests in flight: a bag of request records
  resp,             \* the response sent by the step just taken, if any
  hist,             \* history: what became of each pending id
  userSeq,          \* last value of users_id_seq
  questSeq,         \* last value of quests_id_seq
  minted,           \* how many device tokens the middleware has minted
  bar               \* the progress bar of the page a browser has loaded

vars == << variant, users, quests, global_progress, pending_photos, photos,
           pendingSeq, photoSeq, blobs, blobSeq, reqs, resp, hist,
           userSeq, questSeq, minted, bar >>

\* The state of the accounts, quests and sessions side that the moderation
\* handlers never write.
ident == << userSeq, questSeq, minted >>

\* The tables and counters of the store and the blob host.
store == << users, quests, global_progress, pending_photos, photos,
            pendingSeq, photoSeq, blobs, blobSeq >>

\* ------------------------------------------------------------- requests
\* What a transaction has written and not yet committed.
NoTx == [photo |-> None, credit |-> 0, del |-> FALSE]

\* A request being handled: its route, where its handler stands (pc) and
\* the handler's local variables.
Req(kind, pc) ==
  [kind |-> kind, pc |-> pc, tok |-> "none", id |-> 0, taken |-> None,
   user |-> 0, upl |-> 0, row |-> None, pts |-> 0, tx |-> NoTx]

\* The response sent by a step: the route that answers, the status (a
\* redirect with its target), and whether a dependency failure caused it.
NoResp == [route |-> "none", status |-> "none", fault |-> FALSE]
Resp(route, status) == [route |-> route, status |-> status, fault |-> FALSE]
FaultResp(route, status) == [route |-> route, status |-> status, fault |-> TRUE]

\* No page with a progress bar is loaded.
NoBar == [pc |-> "none"]

\* ------------------------------------------------------ identity and gate
\* A lookup that ignores the token: every account matches.
UsersByDeviceAny(token) == users

\* getUserByDevice: SELECT * FROM users WHERE $1 = ANY(devices) LIMIT 1.
\* There is no ORDER BY: with several matching rows any one may be returned.
UsersByDevice(token) ==
  { u \in users : \E i \in 1..Len(u.devices) : u.devices[i] = token }

AdminName == "Nicolas"

\* requireAdmin: "pass", or the response that ends the request.
\* A gate that lets every account through.
RequireAdminAnyone(u) == "pass"

RequireAdmin(u) == IF u.username # AdminName THEN "403" ELSE "pass"

\* ---------------------------------------------------------------- multer
\* A filter that lets every content type through.
FileFilterAll(file) == TRUE

FileFilter(file) == file.mimetype = "image/jpeg" \/ file.mimetype = "image/png"

\* upload.single('image'): the file is handed to the handler when it passes
\* the filter and the size limit; otherwise multer calls next(err) and the
\* handler never runs.
MulterAccepts(file) == FileFilter(file) /\ file.size <= FileSizeLimit

\* -------------------------------------------------------------- parseInt
Digits == {"0", "1", "2", "3", "4", "5", "6", "7", "8", "9"}

DigitVal(c) ==
  CASE c = "0" -> 0 [] c = "1" -> 1 [] c = "2" -> 2 [] c = "3" -> 3
    [] c = "4" -> 4 [] c = "5" -> 5 [] c = "6" -> 6 [] c = "7" -> 7
    [] c = "8" -> 8 [] c = "9" -> 9

\* Length of the longest prefix of s made of digits.
RECURSIVE DigitPrefix(_)
DigitPrefix(s) ==
  IF s = <<>> \/ s[1] \notin Digits THEN 0 ELSE 1 + DigitPrefix(Tail(s))

RECURSIVE DecValue(_, _)
DecValue(s, acc) ==
  IF s = <<>> THEN acc ELSE DecValue(Tail(s), 10 * acc + DigitVal(s[1]))

\* parseInt(s, 10) on a string of the input alphabet: the value of the
\* leading digits, None for NaN (no leading digit).
ParseInt(s) ==
  IF DigitPrefix(s) = 0 THEN None
  ELSE Some(DecValue(SubSeq(s, 1, DigitPrefix(s)), 0))

\* PostgreSQL's input conversion of a text parameter to INTEGER accepts the
\* string only when all of it is digits; anything else is an error.
PgIntegerOk(s) == s # <<>> /\ DigitPrefix(s) = Len(s)

\* The quest_id parameter POST /upload hands to the INSERT.
\*   hub:    let questId = req.body.quest_id;
\*           if (questId) { questId = parseInt(questId, 10);
\*                          if (isNaN(questId)) questId = null; }
\*   server: const questId = req.body.quest_id || null;
\* An undefined or empty parameter is sent as NULL; in "server" the string
\* itself is sent and the store converts it.
QuestIdParam(raw) ==
  IF raw = None \/ raw = Some(<<>>) THEN None
  ELSE IF variant = "hub" THEN ParseInt(Val(raw))
  ELSE Some(DecValue(Val(raw), 0))

\* Whether the store refuses the quest_id parameter of the INSERT.
QuestIdRefused(raw) ==
  /\ variant = "server"
  /\ raw # None /\ raw # Some(<<>>)
  /\ ~PgIntegerOk(Val(raw))

\* ------------------------------------------------------------ the tables
\* bcrypt.hash(password, 10) and bcrypt.compare(password, hash): the hash
\* matches the password it was made from and no other.
Hash(password) == << "bcrypt", password >>
\* A comparison that accepts every password.
CompareAny(password, hash) == TRUE

Compare(password, hash) == hash = Hash(password)

InitUsers ==
  { [id |-> 1, username |-> "Nicolas", password_hash |-> Hash("pwN"),
     devices |-> <<"dA">>],
    [id |-> 2, username |-> "Alice", password_hash |-> Hash("pwA"),
     devices |-> <<"dU">>] }

\* The calendar: CURRENT_DATE and the bounds of a weekly quest are days.
Days == 1 .. 2

\* Quest types, as the text the column holds: "1" daily, "2" special,
\* "3" weekly.
InitQuests ==
  { [id |-> 1, points |-> 5, type |-> "1", start_at |-> None, end_at |-> None,
     active |-> TRUE],
    [id |-> 2, points |-> 0 - 3, type |-> "3", start_at |-> Some(2),
     end_at |-> Some(2), active |-> TRUE] }

\* initDb creates the tables and inserts no row.  The accounts (there is no
\* way to create the first admin through the application) and the quests
\* are provisioned; the global_progress row with id 1 is there only if it
\* was provisioned too, no statement of the application inserts it.
Init ==
  /\ variant \in {"hub", "server"}
  /\ users = InitUsers
  /\ quests = InitQuests
  /\ global_progress \in { {}, {[id |-> 1, points |-> 0]} }
  /\ pending_photos = {}
  /\ photos = {}
  /\ pendingSeq = 0
  /\ photoSeq = 0
  /\ blobs = {}
  /\ blobSeq = 0
  /\ reqs = EmptyBag
  /\ resp = NoResp
  /\ hist = [i \in PendingIds |-> [st |-> "none", due |-> 0]]
  /\ userSeq = 2
  /\ questSeq = 2
  /\ minted = 0
  /\ bar = NoBar

\* What the pages read: SELECT points FROM global_progress WHERE id = 1,
\* then progressRow ? parseInt(progressRow.points, 10) : 0.
TotalPoints ==
  IF \E g \in global_progress : g.id = 1
  THEN (CHOOSE g \in global_progress : g.id = 1).points
  ELSE 0

\* SELECT * FROM pending_photos WHERE id = $1 / SELECT filename FROM photos
\* WHERE id = $1: the committed rows with that id.
PendingById(id) == { p \in pending_photos : p.id = id }
PhotoById(id) == { p \in photos : p.id = id }

UserExists(id) == \E u \in users : u.id = id

\* ------------------------------------------------- the requests in flight
InFlight == BagToSet(reqs)

\* A request arrives and its handler reaches its first await.
Accept(q) ==
  /\ BagCardinality(reqs) < Cardinality(Clients)
  /\ reqs' = reqs (+) SetToBag({q})
  /\ resp' = NoResp

\* A request arrives and is answered before any await.
Answer(response) ==
  /\ reqs' = reqs
  /\ resp' = response

\* Request q ends with the response.
Finish(q, response) ==
  /\ reqs' = reqs (-) SetToBag({q})
  /\ resp' = response

\* Request q moves on to its next await, as record n.
Goto(q, n) ==
  /\ reqs' = (reqs (-) SetToBag({q})) (+) SetToBag({n})
  /\ resp' = NoResp

\* --------------------------------------- requireAdmin, for the admin routes
\* The response that ends the request at the gate, or "pass".
\*   if (!user) return res.redirect('/');
\*   if (user.username !== 'Nicolas') return res.status(403).send(...);
AdminGate(token) ==
  IF UsersByDevice(token) = {} THEN {"302:/"}
  ELSE { RequireAdmin(u) : u \in UsersByDevice(token) }

\* ---------------------------------------------------------- POST /upload
StoringUploads ==
  BagCardinality([q \in {x \in InFlight : x.pc = "storing"} |-> reqs[q]])

\* The request arrives: multer, then the handler up to the blob upload.
\*   if (!req.file) return res.redirect('/');
\*   if (!user) return res.status(403).send(...);
\*   takenAt from the EXIF tag, null without one
\* The quest_id field is drawn where the handler reads it (UploadInsert).
UploadStart(token, file) ==
  /\ UNCHANGED << variant, bar, ident, store, hist >>
  /\ IF file # NoFile /\ ~MulterAccepts(file) THEN Answer(Resp("upload", "500"))
     ELSE IF file = NoFile THEN Answer(Resp("upload", "302:/"))
     ELSE IF UsersByDevice(token) = {} THEN Answer(Resp("upload", "403"))
     ELSE /\ blobSeq + StoringUploads < MaxUploads
          /\ \E u \in UsersByDevice(token) :
               Accept([Req("upload", "storing")
                         EXCEPT !.tok = token, !.user = u.id,
                                !.taken = file.exif])

\* A handler that swallows the failure of the blob upload and goes on to
\* the INSERT with the identifier it does not have.
UploadStoreFailedGoesOn(q) ==
  /\ Goto(q, [q EXCEPT !.pc = "inserting"])
  /\ UNCHANGED << variant, bar, ident, store, hist >>

\* What a failed blob upload leaves behind: the catch block answers 500 and
\* writes nothing.
UploadStoreFailed(q) ==
  /\ Finish(q, FaultResp("upload", "500"))
  /\ UNCHANGED << variant, bar, ident, store, hist >>

\* cloudinary.uploader.upload_stream({folder: "pending_uploads"}) resolves
\* with a new public_id, or rejects.
UploadStore(q) ==
  /\ q.kind = "upload" /\ q.pc = "storing"
  /\ \/ /\ blobSeq' = blobSeq + 1
        /\ blobs' = blobs \cup
                      { [folder |-> "pending_uploads", name |-> blobSeq + 1] }
        /\ Goto(q, [q EXCEPT !.pc = "inserting", !.upl = blobSeq + 1])
        /\ UNCHANGED << variant, bar, ident, users, quests, global_progress,
                        pending_photos, photos, pendingSeq, photoSeq, hist >>
     \/ UploadStoreFailed(q)

\* The row INSERT INTO pending_photos writes for request q.
\*   filename = uploadResult.public_id.split('/').pop(); url = secure_url
PendingRow(q, raw) ==
  [id |-> pendingSeq + 1,
   filename |-> q.upl,
   url |-> [folder |-> "pending_uploads", name |-> q.upl],
   user_id |-> q.user,
   device_token |-> q.tok,
   quest_id |-> QuestIdParam(raw),
   taken_at |-> q.taken]

\* INSERT INTO pending_photos, then redirect.  The INSERT fails when the
\* store cannot convert the quest_id parameter, when the owner is gone, or
\* when the store is down.
UploadInsert(q, raw) ==
  /\ q.kind = "upload" /\ q.pc = "inserting"
  /\ UNCHANGED << variant, bar, ident, users, quests, global_progress, photos, photoSeq,
                  blobs, blobSeq >>
  /\ \/ /\ QuestIdRefused(raw) \/ ~UserExists(q.user)
        /\ Finish(q, Resp("upload", "500"))
        /\ UNCHANGED << pending_photos, pendingSeq, hist >>
     \/ /\ ~QuestIdRefused(raw) /\ UserExists(q.user)
        /\ pending_photos' = pending_photos \cup {PendingRow(q, raw)}
        /\ pendingSeq' = pendingSeq + 1
        /\ hist' = [hist EXCEPT ![pendingSeq + 1].st = "pending"]
        /\ Finish(q, Resp("upload", "302:/toilet-app"))
     \/ /\ Finish(q, FaultResp("upload", "500"))
        /\ UNCHANGED << pending_photos, pendingSeq, hist >>

\* ------------------------------------------------------------ row locks
\* SELECT ... FOR UPDATE holds the lock on the pending row from the moment
\* it returns the row until COMMIT or ROLLBACK.
HoldsRowLock(q) ==
  \/ q.kind = "approve" /\ q.pc \in {"quest", "insert", "update", "delete", "commit"}
  \/ q.kind = "reject" /\ q.pc \in {"rdel", "rcommit"} /\ variant = "hub"

PendingLocked(id) == \E q \in InFlight : HoldsRowLock(q) /\ q.id = id

\* UPDATE global_progress locks the row it changed until the transaction ends.
ProgressLocked == \E q \in InFlight : q.tx.credit # 0

\* The points the specification expects an approval of a row with this
\* quest_id to credit: the quest's points, 0 without a quest, for a quest
\* that does not exist, or for points that are not positive.
Worth(quest_id) ==
  IF quest_id = None THEN 0
  ELSE IF \E k \in quests : k.id = Val(quest_id) /\ k.points > 0
    THEN (CHOOSE k \in quests : k.id = Val(quest_id)).points
  ELSE 0

\* ------------------------------------------ POST /admin/pending/:id/approve
\* requireAdmin, pool.connect() and BEGIN.
ApproveStart(token, id) ==
  /\ UNCHANGED << variant, bar, ident, store, hist >>
  /\ \E g \in AdminGate(token) :
       IF g = "pass"
       THEN Accept([Req("approve", "select") EXCEPT !.id = id, !.tok = token])
       ELSE Answer(Resp("approve", g))

\* The catch block: ROLLBACK, then 500.  Nothing the transaction wrote
\* stays; values drawn from sequences are not given back.
ApproveRollback(q, response) ==
  /\ Finish(q, response)
  /\ UNCHANGED << variant, bar, ident, users, quests, global_progress, pending_photos,
                  photos, pendingSeq, blobs, blobSeq, hist >>

\* hub:    SELECT * FROM pending_photos WHERE id = $1 FOR UPDATE
\*         waits while another transaction holds the row; no row: ROLLBACK
\*         and 404.
\* server: SELECT p.*, q.points as quest_points FROM pending_photos p
\*         LEFT JOIN quests q ON p.quest_id = q.id WHERE p.id = $1 FOR UPDATE
\*         A locking clause without OF applies to every table of the
\*         statement, and PostgreSQL refuses it for the table on the
\*         nullable side of the outer join ("FOR UPDATE cannot be applied to
\*         the nullable side of an outer join"): the statement is an error,
\*         caught by the catch block.
ApproveSelect(q) ==
  /\ q.kind = "approve" /\ q.pc = "select"
  /\ IF variant = "server"
     THEN ApproveRollback(q, Resp("approve", "500")) /\ UNCHANGED photoSeq
     ELSE /\ ~PendingLocked(q.id)
          /\ UNCHANGED << variant, bar, ident, store, hist >>
          /\ IF PendingById(q.id) = {}
             THEN Finish(q, Resp("approve", "404"))
             ELSE \E row \in PendingById(q.id) :
                    Goto(q, [q EXCEPT !.pc = "quest", !.row = Some(row)])

\* A lookup that gives every item five points, quest or not.
QuestPointsFlat(row) == 5

\* let questPoints = 0;
\* if (pending.quest_id) { SELECT points FROM quests WHERE id = $1;
\*   if (questRows.length > 0) questPoints = questRows[0].points || 0; }
QuestPoints(row) ==
  IF row.quest_id = None \/ Val(row.quest_id) = 0 THEN 0
  ELSE IF \E k \in quests : k.id = Val(row.quest_id)
    THEN (CHOOSE k \in quests : k.id = Val(row.quest_id)).points
  ELSE 0

ApproveQuest(q) ==
  /\ q.kind = "approve" /\ q.pc = "quest"
  /\ Goto(q, [q EXCEPT !.pc = "insert", !.pts = QuestPoints(Val(q.row))])
  /\ UNCHANGED << variant, bar, ident, store, hist >>

\* The row INSERT INTO photos (filename, url, user_id, taken_at) writes.
PhotoRow(pending) ==
  [id |-> photoSeq + 1,
   filename |-> pending.filename,
   url |-> pending.url,
   user_id |-> pending.user_id,
   taken_at |-> pending.taken_at]

\* An INSERT sent outside the transaction: committed at once.
PhotosAfterInsertAutocommit(row) == photos \cup {row}

\* The committed table photos right after the INSERT of the transaction:
\* unchanged, the row is the transaction's until COMMIT.
PhotosAfterInsert(row) == photos

\* photos.user_id REFERENCES users(id): the INSERT is an error when the owner
\* is gone.
ApproveInsert(q) ==
  /\ q.kind = "approve" /\ q.pc = "insert"
  /\ IF UserExists(Val(q.row).user_id)
     THEN /\ photoSeq < MaxPhotoIds
          /\ photoSeq' = photoSeq + 1
          /\ photos' = PhotosAfterInsert(PhotoRow(Val(q.row)))
          /\ Goto(q, [q EXCEPT !.pc = "update",
                               !.tx.photo = Some(PhotoRow(Val(q.row)))])
          /\ UNCHANGED << variant, bar, ident, users, quests, global_progress,
                          pending_photos, pendingSeq, blobs, blobSeq, hist >>
     ELSE ApproveRollback(q, Resp("approve", "500")) /\ UNCHANGED photoSeq

\* UPDATE global_progress SET points = points + $1 WHERE id = 1: the
\* increment the transaction holds, 0 when no row has id 1.
ProgressCredit(pts) == IF \E g \in global_progress : g.id = 1 THEN pts ELSE 0

\* The UPDATE without the test of the sign: any amount is credited.
ApproveUpdateUnguarded(q) ==
  /\ q.kind = "approve" /\ q.pc = "update"
  /\ ~ProgressLocked
  /\ Goto(q, [q EXCEPT !.pc = "delete", !.tx.credit = ProgressCredit(q.pts)])
  /\ UNCHANGED << variant, bar, ident, store, hist >>

\* if (questPoints > 0) UPDATE global_progress ...; the UPDATE waits while
\* another transaction holds the row.
ApproveUpdate(q) ==
  /\ q.kind = "approve" /\ q.pc = "update"
  /\ IF q.pts > 0
     THEN /\ ~ProgressLocked
          /\ Goto(q, [q EXCEPT !.pc = "delete",
                               !.tx.credit = ProgressCredit(q.pts)])
     ELSE Goto(q, [q EXCEPT !.pc = "delete"])
  /\ UNCHANGED << variant, bar, ident, store, hist >>

\* DELETE FROM pending_photos WHERE id = $1, inside the transaction.
ApproveDelete(q) ==
  /\ q.kind = "approve" /\ q.pc = "delete"
  /\ Goto(q, [q EXCEPT !.pc = "commit", !.tx.del = TRUE])
  /\ UNCHANGED << variant, bar, ident, store, hist >>

\* The tables after COMMIT of a transaction that wrote tx for pending id.
CommitPhotos(tx) == IF tx.photo = None THEN photos ELSE photos \cup {Val(tx.photo)}
CommitProgress(tx) ==
  { [g EXCEPT !.points = IF g.id = 1 THEN g.points + tx.credit ELSE g.points]
      : g \in global_progress }
CommitPending(tx, id) ==
  IF tx.del THEN pending_photos \ PendingById(id) ELSE pending_photos

\* COMMIT, then redirect to /admin.
ApproveCommit(q) ==
  /\ q.kind = "approve" /\ q.pc = "commit"
  /\ photos' = CommitPhotos(q.tx)
  /\ global_progress' = CommitProgress(q.tx)
  /\ pending_photos' = CommitPending(q.tx, q.id)
  /\ hist' = [hist EXCEPT ![q.id] =
                [st |-> "approved", due |-> Worth(Val(q.row).quest_id)]]
  /\ Finish(q, Resp("approve", "302:/admin"))
  /\ UNCHANGED << variant, bar, ident, users, quests, pendingSeq, photoSeq, blobs,
                  blobSeq >>

\* A statement of the transaction, or COMMIT itself, fails.
ApproveFail(q) ==
  /\ q.kind = "approve"
  /\ q.pc \in {"select", "quest", "insert", "update", "delete", "commit"}
  /\ ApproveRollback(q, FaultResp("approve", "500"))
  /\ UNCHANGED photoSeq

\* ------------------------------------------- POST /admin/pending/:id/reject
\* requireAdmin; hub also takes a client and sends BEGIN.
RejectStart(token, id) ==
  /\ UNCHANGED << variant, bar, ident, store, hist >>
  /\ \E g \in AdminGate(token) :
       IF g = "pass"
       THEN Accept([Req("reject", "rsel") EXCEPT !.id = id, !.tok = token])
       ELSE Answer(Resp("reject", g))

\* The response of Reject when no pending row has the id.
\*   hub:    await client.query('ROLLBACK');
\*           return res.status(404).send('Pending photo introuvable');
\*   server: if (rows.length === 0) return res.redirect('/admin');
RejectMissing == IF variant = "hub" THEN "404" ELSE "302:/admin"

\* hub:    SELECT * FROM pending_photos WHERE id = $1 FOR UPDATE
\* server: SELECT filename FROM pending_photos WHERE id = $1 (no lock, it
\*         does not wait either)
RejectSelect(q) ==
  /\ q.kind = "reject" /\ q.pc = "rsel"
  /\ variant = "hub" => ~PendingLocked(q.id)
  /\ UNCHANGED << variant, bar, ident, store, hist >>
  /\ IF PendingById(q.id) = {}
     THEN Finish(q, Resp("reject", RejectMissing))
     ELSE \E row \in PendingById(q.id) :
            Goto(q, [q EXCEPT !.pc = "rdel", !.row = Some(row)])

\* What became of pending id once its row is deleted by Reject.
Rejected(id) ==
  IF PendingById(id) = {} THEN hist
  ELSE [hist EXCEPT ![id] = [st |-> "rejected", due |-> 0]]

\* DELETE FROM pending_photos WHERE id = $1
\* hub:    inside the transaction, COMMIT follows.
\* server: on its own; it waits while a transaction holds the row, deletes
\*         the row if it is still there, and the handler redirects.
RejectDelete(q) ==
  /\ q.kind = "reject" /\ q.pc = "rdel"
  /\ UNCHANGED << variant, bar, ident, users, quests, global_progress, photos,
                  pendingSeq, photoSeq, blobs, blobSeq >>
  /\ IF variant = "hub"
     THEN /\ Goto(q, [q EXCEPT !.pc = "rcommit", !.tx.del = TRUE])
          /\ UNCHANGED << pending_photos, hist >>
     ELSE /\ ~PendingLocked(q.id)
          /\ pending_photos' = pending_photos \ PendingById(q.id)
          /\ hist' = Rejected(q.id)
          /\ Finish(q, Resp("reject", "302:/admin"))

\* hub: COMMIT, then redirect to /admin.
RejectCommit(q) ==
  /\ q.kind = "reject" /\ q.pc = "rcommit"
  /\ pending_photos' = CommitPending(q.tx, q.id)
  /\ hist' = Rejected(q.id)
  /\ Finish(q, Resp("reject", "302:/admin"))
  /\ UNCHANGED << variant, bar, ident, users, quests, global_progress, photos,
                  pendingSeq, photoSeq, blobs, blobSeq >>

\* A statement fails: the catch block (hub: after ROLLBACK) answers 500.
RejectFail(q) ==
  /\ q.kind = "reject" /\ q.pc \in {"rsel", "rdel", "rcommit"}
  /\ Finish(q, FaultResp("reject", "500"))
  /\ UNCHANGED << variant, bar, ident, store, hist >>

\* --------------------------------------------- POST /admin/photo/:id/delete
DeletePhotoStart(token, id) ==
  /\ UNCHANGED << variant, bar, ident, store, hist >>
  /\ \E g \in AdminGate(token) :
       IF g = "pass"
       THEN Accept([Req("deletePhoto", "psel") EXCEPT !.id = id, !.tok = token])
       ELSE Answer(Resp("deletePhoto", g))

\* SELECT filename FROM photos WHERE id = $1
\*   hub:    if (rows[0]) await cloudinary.uploader.destroy(`uploads/${filename}`);
\*   server: the destroy call is commented out.
DeletePhotoSelect(q) ==
  /\ q.kind = "deletePhoto" /\ q.pc = "psel"
  /\ UNCHANGED << variant, bar, ident, store, hist >>
  /\ IF PhotoById(q.id) # {} /\ variant = "hub"
     THEN \E row \in PhotoById(q.id) :
            Goto(q, [q EXCEPT !.pc = "destroy", !.upl = row.filename])
     ELSE Goto(q, [q EXCEPT !.pc = "pdel"])

\* The public_id DeletePhoto asks the blob host to destroy.
DestroyTarget(filename) == [folder |-> "uploads", name |-> filename]

\* What the handler does when destroy rejects: the await throws into the
\* catch block, which answers 500; the DELETE is not reached.
DestroyFailed(q) ==
  /\ Finish(q, FaultResp("deletePhoto", "500"))
  /\ UNCHANGED << variant, bar, ident, store, hist >>

\* cloudinary.uploader.destroy resolves (the blob with that public_id, if
\* there is one, is gone) or rejects.
DeletePhotoDestroy(q) ==
  /\ q.kind = "deletePhoto" /\ q.pc = "destroy"
  /\ \/ /\ blobs' = blobs \ {DestroyTarget(q.upl)}
        /\ Goto(q, [q EXCEPT !.pc = "pdel"])
        /\ UNCHANGED << variant, bar, ident, users, quests, global_progress,
                        pending_photos, photos, pendingSeq, photoSeq,
                        blobSeq, hist >>
     \/ DestroyFailed(q)

\* DELETE FROM photos WHERE id = $1, then redirect to /admin.
DeletePhotoDelete(q) ==
  /\ q.kind = "deletePhoto" /\ q.pc = "pdel"
  /\ photos' = photos \ PhotoById(q.id)
  /\ Finish(q, Resp("deletePhoto", "302:/admin"))
  /\ UNCHANGED << variant, bar, ident, users, quests, global_progress, pending_photos,
                  pendingSeq, photoSeq, blobs, blobSeq, hist >>

\* The SELECT or the DELETE fails: the catch block answers 500.
DeletePhotoFail(q) ==
  /\ q.kind = "deletePhoto" /\ q.pc \in {"psel", "pdel"}
  /\ Finish(q, FaultResp("deletePhoto", "500"))
  /\ UNCHANGED << variant, bar, ident, store, hist >>

\* ------------------------------------------------------------ the program
Next ==
  \/ \E token \in Tokens, file \in Files \cup {NoFile} : UploadStart(token, file)
  \/ \E q \in InFlight : UploadStore(q)
  \/ \E q \in InFlight, raw \in QuestIdInputs : UploadInsert(q, raw)
  \/ \E token \in Tokens, id \in PendingIds : ApproveStart(token, id)
  \/ \E q \in InFlight : ApproveSelect(q)
  \/ \E q \in InFlight : ApproveQuest(q)
  \/ \E q \in InFlight : ApproveInsert(q)
  \/ \E q \in InFlight : ApproveUpdate(q)
  \/ \E q \in InFlight : ApproveDelete(q)
  \/ \E q \in InFlight : ApproveCommit(q)
  \/ \E q \in InFlight : ApproveFail(q)
  \/ \E token \in Tokens, id \in PendingIds : RejectStart(token, id)
  \/ \E q \in InFlight : RejectSelect(q)
  \/ \E q \in InFlight : RejectDelete(q)
  \/ \E q \in InFlight : RejectCommit(q)
  \/ \E q \in InFlight : RejectFail(q)
  \/ \E token \in Tokens, id \in PhotoIds : DeletePhotoStart(token, id)
  \/ \E q \in InFlight : DeletePhotoSelect(q)
  \/ \E q \in InFlight : DeletePhotoDestroy(q)
  \/ \E q \in InFlight : DeletePhotoDelete(q)
  \/ \E q \in InFlight : DeletePhotoFail(q)

Spec == Init /\ [][Next]_vars

\* ======================================== accounts, quests and sessions
MaxUserIds == 3      \* values users_id_seq issues (two accounts provisioned)
MaxQuestIds == 3     \* values quests_id_seq issues (two quests provisioned)
MaxMinted == 1       \* device tokens minted in one run

\* ------------------------------------------------------ token middleware
\* crypto.randomBytes(16).toString('hex'): 128 random bits.  The generator
\* is taken to be ideal: it yields a value that no request has carried and
\* no response has set before, here the next name of the pool.
MintPool == << "m1", "m2", "m3" >>
FreshToken == MintPool[minted + 1]

\* The device tokens clients hold: the provisioned ones and the minted ones.
KnownTokens == Tokens \cup { MintPool[i] : i \in 1..minted }
Cookies == {None} \cup { Some(t) : t \in KnownTokens }

\* A middleware that mints a token for every request, cookie or not.
TokenMiddlewareRemint(cookie) ==
  [cookie |-> cookie, token |-> Some(FreshToken), set |-> TRUE,
   cleared |-> FALSE]

\*   let token = req.cookies.device_token;
\*   if (!token) { token = crypto.randomBytes(16).toString('hex');
\*                 res.cookie('device_token', token, {...}); }
\*   req.deviceToken = token;
TokenMiddleware(cookie) ==
  IF cookie = None
  THEN [cookie |-> cookie, token |-> Some(FreshToken), set |-> TRUE,
        cleared |-> FALSE]
  ELSE [cookie |-> cookie, token |-> cookie, set |-> FALSE, cleared |-> FALSE]

\* The request passes the middleware.
Through(cookie) ==
  /\ TokenMiddleware(cookie).set => minted < MaxMinted
  /\ minted' = IF TokenMiddleware(cookie).set THEN minted + 1 ELSE minted

\* The response of a page or session request, with what the middleware did
\* to it: the cookie the request carried, the token the handler saw, whether
\* a Set-Cookie for device_token went out, whether the cookie was cleared.
SessionResp(route, status, cookie) ==
  [route |-> route, status |-> status, fault |-> FALSE,
   mw |-> TokenMiddleware(cookie)]

\* ------------------------------------------------------------------ GET /
\* getUserByDevice, then render index with the user (or none).
Index(cookie) ==
  /\ Through(cookie)
  /\ \/ Answer(SessionResp("index", "200", cookie))
     \/ Answer(FaultResp("index", "500"))
  /\ UNCHANGED << variant, bar, store, hist, userSeq, questSeq >>

\* ------------------------------------------------------------ POST /login
Usernames == {"Nicolas", "Alice", "Bob"}
Passwords == {"pwN", "pwA", "pwB"}

\* SELECT * FROM users WHERE username = $1, then bcrypt.compare.
\*   if (!user) return res.status(401)...; if (!valid) return res.status(401)
LoginStart(cookie, username, password) ==
  /\ Through(cookie)
  /\ UNCHANGED << variant, bar, store, hist, userSeq, questSeq >>
  /\ IF \A u \in users : u.username # username
          \/ ~Compare(password, u.password_hash)
     THEN Answer(SessionResp("login", "401", cookie))
     ELSE \E u \in users :
            /\ u.username = username
            /\ Accept([Req("login", "bind")
                         EXCEPT !.tok = Val(TokenMiddleware(cookie).token),
                                !.user = u.id])

\* An UPDATE without the guard: the token is appended at every login.
BindDeviceAlways(u, token) == [u EXCEPT !.devices = Append(@, token)]

\* UPDATE users SET devices = array_append(devices, $1)
\*  WHERE id = $2 AND NOT ($1 = ANY(devices)), on the row u with id $2.
BindDevice(u, token) ==
  IF \E i \in 1..Len(u.devices) : u.devices[i] = token THEN u
  ELSE [u EXCEPT !.devices = Append(@, token)]

\* res.cookie("user_id", user.id, { httpOnly: true }); res.redirect('/')
LoginResp(q) ==
  [route |-> "login", status |-> "302:/", fault |-> FALSE, user_id |-> q.user]

\* A login that moves the device: the token is taken away from every other
\* account before it is bound.
LoginBindMoving(q) ==
  /\ q.kind = "login" /\ q.pc = "bind"
  /\ users' = { IF u.id = q.user THEN BindDevice(u, q.tok)
                ELSE [u EXCEPT !.devices = SelectSeq(@, LAMBDA d : d # q.tok)]
                : u \in users }
  /\ Finish(q, LoginResp(q))
  /\ UNCHANGED << variant, bar, ident, quests, global_progress, pending_photos,
                  photos, pendingSeq, photoSeq, blobs, blobSeq, hist >>

\* The UPDATE (it changes nothing when the account is gone), the user_id
\* cookie and the redirect to /.
LoginBind(q) ==
  /\ q.kind = "login" /\ q.pc = "bind"
  /\ users' = { IF u.id = q.user THEN BindDevice(u, q.tok) ELSE u : u \in users }
  /\ Finish(q, LoginResp(q))
  /\ UNCHANGED << variant, bar, ident, quests, global_progress, pending_photos,
                  photos, pendingSeq, photoSeq, blobs, blobSeq, hist >>

\* The catch block of /login: 500.
LoginFail(q) ==
  /\ q.kind = "login"
  /\ Finish(q, FaultResp("login", "500"))
  /\ UNCHANGED << variant, bar, ident, store, hist >>

\* ------------------------------------------------------------ GET /logout
\* res.clearCookie("user_id"); res.clearCookie("device_token"); redirect.
Logout(cookie) ==
  /\ Through(cookie)
  /\ Answer([SessionResp("logout", "302:/", cookie) EXCEPT !.mw.cleared = TRUE])
  /\ UNCHANGED << variant, bar, store, hist, userSeq, questSeq >>

\* ------------------------------------------------ POST /admin/users/create
UserRow(username, password) ==
  [id |-> userSeq + 1, username |-> username,
   password_hash |-> Hash(password), devices |-> << >>]

\*   if (!username || !password) return res.status(400).send('Missing');
\*   INSERT INTO users (username, password_hash, devices, profile_pic)
\* username is UNIQUE: a second row of the name is an error (500); the value
\* drawn from users_id_seq is spent either way.
CreateUser(token, username, password) ==
  /\ UNCHANGED << variant, bar, questSeq, minted, quests, global_progress,
                  pending_photos, photos, pendingSeq, photoSeq, blobs,
                  blobSeq, hist >>
  /\ \E g \in AdminGate(token) :
       IF g # "pass"
       THEN Answer(Resp("createUser", g)) /\ UNCHANGED << users, userSeq >>
       ELSE IF username = None \/ password = None
       THEN Answer(Resp("createUser", "400")) /\ UNCHANGED << users, userSeq >>
       ELSE \/ /\ userSeq < MaxUserIds
               /\ userSeq' = userSeq + 1
               /\ IF \E u \in users : u.username = Val(username)
                  THEN users' = users /\ Answer(Resp("createUser", "500"))
                  ELSE /\ users' = users \cup {UserRow(Val(username), Val(password))}
                       /\ Answer(Resp("createUser", "302:/admin"))
            \/ /\ Answer(FaultResp("createUser", "500"))
               /\ UNCHANGED << users, userSeq >>

\* ------------------------------------------- POST /admin/users/:id/delete
\* The rows ON DELETE CASCADE takes along with the account.
\* A reference without ON DELETE CASCADE takes no row along.
OwnedNone(id) == {}

OwnedPending(id) == { p \in pending_photos : p.user_id = id }
OwnedPhotos(id) == { p \in photos : p.user_id = id }

\* DELETE FROM users WHERE id = $1.  It waits while a transaction holds one
\* of the rows it has to delete or a row it inserted that refers to the
\* account.
DeleteUser(token, id) ==
  /\ UNCHANGED << variant, bar, ident, quests, global_progress, pendingSeq,
                  photoSeq, blobs, blobSeq >>
  /\ \E g \in AdminGate(token) :
       IF g # "pass"
       THEN /\ Answer(Resp("deleteUser", g))
            /\ UNCHANGED << users, pending_photos, photos, hist >>
       ELSE \/ /\ \A p \in OwnedPending(id) : ~PendingLocked(p.id)
               /\ \A q \in InFlight :
                    IF q.tx.photo = None THEN TRUE
                    ELSE Val(q.tx.photo).user_id # id
               /\ users' = { u \in users : u.id # id }
               /\ pending_photos' = pending_photos \ OwnedPending(id)
               /\ photos' = photos \ OwnedPhotos(id)
               /\ hist' = [i \in PendingIds |->
                            IF \E p \in OwnedPending(id) : p.id = i
                            THEN [st |-> "cascaded", due |-> 0] ELSE hist[i]]
               /\ Answer(Resp("deleteUser", "302:/admin"))
            \/ /\ Answer(FaultResp("deleteUser", "500"))
               /\ UNCHANGED << users, pending_photos, photos, hist >>

\* ----------------------------------------------- POST /admin/quests/create
\* The form fields the model varies: points, type and the weekly window.
QuestForms ==
  { [points |-> Some(<<"7">>), type |-> Some("1"), start_at |-> None,
     end_at |-> None],
    [points |-> Some(<<"-", "4">>), type |-> Some("3"), start_at |-> Some(1),
     end_at |-> Some(1)],
    [points |-> Some(<<"x">>), type |-> None, start_at |-> None,
     end_at |-> None] }

\* parseInt(points, 10) || 0, with the sign parseInt reads.
PointsParam(raw) ==
  IF raw = None \/ raw = Some(<< >>) THEN 0
  ELSE IF Val(raw)[1] = "-"
    THEN IF ParseInt(Tail(Val(raw))) = None THEN 0
         ELSE 0 - Val(ParseInt(Tail(Val(raw))))
  ELSE IF ParseInt(Val(raw)) = None THEN 0
  ELSE Val(ParseInt(Val(raw)))

\* hub:    parseInt(type, 10), stored in the TEXT column ("NaN" without a
\*         type); start_at and end_at only when type == 3.
\* server: the literal 'weekly'; start_at and end_at as sent.
QuestRow(form) ==
  [id |-> questSeq + 1,
   points |-> PointsParam(form.points),
   type |-> IF variant = "server" THEN "weekly"
            ELSE IF form.type = None THEN "NaN" ELSE Val(form.type),
   start_at |-> IF variant = "hub" /\ form.type # Some("3") THEN None
                ELSE form.start_at,
   end_at |-> IF variant = "hub" /\ form.type # Some("3") THEN None
              ELSE form.end_at,
   active |-> TRUE]

CreateQuest(token, form) ==
  /\ UNCHANGED << variant, bar, userSeq, minted, users, global_progress,
                  pending_photos, photos, pendingSeq, photoSeq, blobs,
                  blobSeq, hist >>
  /\ \E g \in AdminGate(token) :
       IF g # "pass"
       THEN Answer(Resp("createQuest", g)) /\ UNCHANGED << quests, questSeq >>
       ELSE \/ /\ questSeq < MaxQuestIds
               /\ questSeq' = questSeq + 1
               /\ quests' = quests \cup {QuestRow(form)}
               /\ Answer(Resp("createQuest", "302:/admin"))
            \/ /\ Answer(FaultResp("createQuest", "500"))
               /\ UNCHANGED << quests, questSeq >>

\* ------------------------------------------- refreshWeeklyQuestsActive
\* UPDATE quests
\*   SET active = COALESCE(CURRENT_DATE BETWEEN start_at AND end_at, false)
\*   WHERE type = 3, on the day CURRENT_DATE gives.
Between(day, start_at, end_at) ==
  /\ start_at # None /\ end_at # None
  /\ Val(start_at) <= day /\ day <= Val(end_at)

RefreshWeeklyQuestsActive(day) ==
  { IF k.type = "3"
    THEN [k EXCEPT !.active = Between(day, k.start_at, k.end_at)]
    ELSE k : k \in quests }

\* GET /admin: requireAdmin; hub refreshes the weekly quests first; then the
\* page reads the tables.
AdminPage(token, day) ==
  /\ UNCHANGED << variant, bar, ident, users, global_progress, pending_photos,
                  photos, pendingSeq, photoSeq, blobs, blobSeq, hist >>
  /\ \E g \in AdminGate(token) :
       IF g # "pass" THEN Answer(Resp("admin", g)) /\ UNCHANGED quests
       ELSE \/ /\ quests' = IF variant = "hub"
                            THEN RefreshWeeklyQuestsActive(day) ELSE quests
               /\ Answer(Resp("admin", "200")) \/ Answer(FaultResp("admin", "500"))
            \/ Answer(FaultResp("admin", "500")) /\ UNCHANGED quests

\* The time of day NOW() gives beside the day: 0 is midnight, the instant
\* CURRENT_DATE and a stored date stand for; 1 is any later time of the day.
Hours == 0 .. 1

\*   SELECT * FROM quests
\*   WHERE active = true
\*     AND (type != 3 OR (start_at <= NOW() AND end_at >= NOW()))
\* A comparison with NULL selects nothing.
QuestListing(rows, day, hour) ==
  { k \in rows :
      /\ k.active
      /\ \/ k.type # "3"
         \/ /\ k.start_at # None /\ k.end_at # None
            /\ Val(k.start_at) <= day
            /\ Val(k.end_at) > day \/ (Val(k.end_at) = day /\ hour = 0) }

\*   const weeklyQuests = quests.filter(q => q.type === 3);
WeeklyQuests(listing) == { k.id : k \in { x \in listing : x.type = "3" } }

\* The page the hub renders, with its weekly quests.
ToiletAppPage(listing) ==
  [route |-> "toilet-app", status |-> "200", fault |-> FALSE,
   weeklyQuests |-> WeeklyQuests(listing)]

\* GET /toilet-app: requireLogin; hub refreshes the weekly quests first and
\* lists the quests; server lists none.
ToiletApp(token, day, hour) ==
  /\ UNCHANGED << variant, bar, ident, users, global_progress, pending_photos,
                  photos, pendingSeq, photoSeq, blobs, blobSeq, hist >>
  /\ IF UsersByDevice(token) = {}
     THEN Answer(Resp("toilet-app", "302:/")) /\ UNCHANGED quests
     ELSE \/ /\ variant = "hub"
             /\ quests' = RefreshWeeklyQuestsActive(day)
             /\ Answer(ToiletAppPage(QuestListing(quests', day, hour)))
                  \/ Answer(FaultResp("toilet-app", "500"))
          \/ /\ variant # "hub"
             /\ quests' = quests
             /\ Answer(Resp("toilet-app", "200"))
          \/ Answer(FaultResp("toilet-app", "500")) /\ UNCHANGED quests

\* ================================================= the earliest revision
\* part_000 from line 563 on: users and photos only, no moderation.  Its
\* POST /upload shares the start of the handler (UploadStart), stores the
\* blob under "uploads" and inserts into photos itself.
FirstUploadStore(q) ==
  /\ q.kind = "upload" /\ q.pc = "storing"
  /\ \/ /\ blobSeq' = blobSeq + 1
        /\ blobs' = blobs \cup { [folder |-> "uploads", name |-> blobSeq + 1] }
        /\ Goto(q, [q EXCEPT !.pc = "inserting", !.upl = blobSeq + 1])
        /\ UNCHANGED << variant, bar, ident, users, quests, global_progress,
                        pending_photos, photos, pendingSeq, photoSeq, hist >>
     \/ UploadStoreFailed(q)

\* INSERT INTO photos (filename, url, taken_at, user_id), then redirect to /.
FirstPhotoRow(q) ==
  [id |-> photoSeq + 1,
   filename |-> q.upl,
   url |-> [folder |-> "uploads", name |-> q.upl],
   user_id |-> q.user,
   taken_at |-> q.taken]

FirstUploadInsert(q) ==
  /\ q.kind = "upload" /\ q.pc = "inserting"
  /\ UNCHANGED << variant, bar, ident, users, quests, global_progress,
                  pending_photos, pendingSeq, blobs, blobSeq, hist >>
  /\ \/ /\ UserExists(q.user)
        /\ photoSeq < MaxPhotoIds
        /\ photoSeq' = photoSeq + 1
        /\ photos' = photos \cup {FirstPhotoRow(q)}
        /\ Finish(q, Resp("upload", "302:/"))
     \/ /\ Finish(q, FaultResp("upload", "500"))
        /\ UNCHANGED << photos, photoSeq >>

\* ============================================== the whole application
\* The three revisions, one request at a time: a request is taken up when
\* none is in flight.  The earliest revision has no quests, no progress
\* table and none of the admin routes.
InitApp ==
  /\ variant \in {"hub", "server", "first"}
  /\ users = InitUsers
  /\ quests = IF variant = "first" THEN {} ELSE InitQuests
  /\ global_progress \in IF variant = "first" THEN { {} }
                         ELSE { {}, {[id |-> 1, points |-> 0]} }
  /\ pending_photos = {}
  /\ photos = {}
  /\ pendingSeq = 0
  /\ photoSeq = 0
  /\ blobs = {}
  /\ blobSeq = 0
  /\ reqs = EmptyBag
  /\ resp = NoResp
  /\ hist = [i \in PendingIds |-> [st |-> "none", due |-> 0]]
  /\ userSeq = 2
  /\ questSeq = 2
  /\ minted = 0
  /\ bar = NoBar

Idle == reqs = EmptyBag

\* The cookies the page and session requests carry here, and the tokens of
\* the requests to the account, quest and page routes.
AppCookies == {None, Some("dX")}
AppAdmins == {"dA", "dU"}
AppUploaders == {"dU", "dX"}
AppFiles == { f \in Files : f.size = 1 \/ f.mimetype = "image/gif" }
AppQuestIds == {None, Some(<<"1">>), Some(<<"2">>)}
Moderated == variant \in {"hub", "server"}

NextApp ==
  \/ Idle /\ \E token \in AppUploaders, file \in AppFiles \cup {NoFile} :
               UploadStart(token, file)
  \/ Moderated /\ \E q \in InFlight : UploadStore(q)
  \/ Moderated /\ \E q \in InFlight, raw \in AppQuestIds : UploadInsert(q, raw)
  \/ ~Moderated /\ \E q \in InFlight : FirstUploadStore(q)
  \/ ~Moderated /\ \E q \in InFlight : FirstUploadInsert(q)
  \/ Moderated /\ Idle /\ \E token \in AppAdmins, id \in PendingIds :
                            ApproveStart(token, id)
  \/ \E q \in InFlight : ApproveSelect(q)
  \/ \E q \in InFlight : ApproveQuest(q)
  \/ \E q \in InFlight : ApproveInsert(q)
  \/ \E q \in InFlight : ApproveUpdate(q)
  \/ \E q \in InFlight : ApproveDelete(q)
  \/ \E q \in InFlight : ApproveCommit(q)
  \/ \E q \in InFlight : ApproveFail(q)
  \/ Moderated /\ Idle /\ \E token \in AppAdmins, id \in PendingIds :
                            RejectStart(token, id)
  \/ \E q \in InFlight : RejectSelect(q)
  \/ \E q \in InFlight : RejectDelete(q)
  \/ \E q \in InFlight : RejectCommit(q)
  \/ \E q \in InFlight : RejectFail(q)
  \/ Moderated /\ Idle /\ \E token \in AppAdmins, id \in PhotoIds :
                            DeletePhotoStart(token, id)
  \/ \E q \in InFlight : DeletePhotoSelect(q)
  \/ \E q \in InFlight : DeletePhotoDestroy(q)
  \/ \E q \in InFlight : DeletePhotoDelete(q)
  \/ \E q \in InFlight : DeletePhotoFail(q)
  \/ Idle /\ \E cookie \in AppCookies : Index(cookie)
  \/ Idle /\ \E cookie \in AppCookies \ {None}, password \in {"pwA", "pwB"} :
               LoginStart(cookie, "Alice", password)
  \/ \E q \in InFlight : LoginBind(q)
  \/ \E q \in InFlight : LoginFail(q)
  \/ Moderated /\ Idle /\ \E cookie \in AppCookies \ {None} : Logout(cookie)
  \/ Moderated /\ Idle /\ \E token \in AppAdmins,
                             username \in {None, Some("Bob")} :
                            CreateUser(token, username, Some("pwB"))
  \/ Moderated /\ Idle /\ \E token \in AppAdmins, id \in 2..MaxUserIds :
                            DeleteUser(token, id)
  \/ Moderated /\ Idle /\ \E token \in AppAdmins, form \in QuestForms :
                            CreateQuest(token, form)
  \/ Moderated /\ Idle /\ \E token \in AppAdmins, day \in Days :
                            AdminPage(token, day)
  \/ Moderated /\ Idle /\ \E token \in AppAdmins, day \in Days, hour \in Hours :
                            ToiletApp(token, day, hour)

SpecApp == InitApp /\ [][NextApp]_vars

\* ======================================================== the sessions
\* The page and session routes alone, with two clients: every known cookie
\* or none on the pages, the devices dU and dX at the login form.
SessionLogins ==
  { <<"Alice", "pwA">>, <<"Nicolas", "pwN">>, <<"Alice", "pwN">>,
    <<"Bob", "pwB">> }

NextSession ==
  \/ \E cookie \in Cookies : Index(cookie)
  \/ \E cookie \in {Some("dU"), Some("dX")}, login \in SessionLogins :
       LoginStart(cookie, login[1], login[2])
  \/ \E q \in InFlight : LoginBind(q)
  \/ \E q \in InFlight : LoginFail(q)
  \/ Moderated /\ \E cookie \in Cookies : Logout(cookie)

SpecSession == InitApp /\ [][NextSession]_vars

\* ================================================== the progress bar
\* public/js/toilet-app.js, the DOMContentLoaded handler of the page: the
\* total and the reward tiers come from the data attributes of the
\* container, the handler sets the width of the indicator, the text and the
\* two icons.
MaxTotal == 4        \* totals 0 .. MaxTotal
MaxTiers == 2        \* rows of rewards
MaxThreshold == 3    \* points_required 0 .. MaxThreshold

Totals == 0 .. MaxTotal

\* The arrays JSON.parse can give for data-rewards: the rows of rewards,
\* ids in the order of the array.
Tier(id, points_required) == [id |-> id, points_required |-> points_required]

RewardLists ==
  UNION { { [i \in 1..n |-> Tier(i, f[i])] : f \in [1..n -> 0..MaxThreshold] }
          : n \in 0..MaxTiers }

\* A percentage is a fraction << n, d >> with d > 0, standing for n/d.
Pct(v) == << v, 1 >>
PctLeq(a, b) == a[1] * b[2] <= b[1] * a[2]
PctIs(a, v) == a[1] = v * a[2]

\*   rewards.sort((a, b) => (a.points_required || 0) - (b.points_required || 0));
\* The sort is stable: rows of equal points keep their order.
RECURSIVE InsertTier(_, _)
InsertTier(sorted, r) ==
  IF sorted = << >> THEN << r >>
  ELSE IF sorted[Len(sorted)].points_required <= r.points_required
    THEN Append(sorted, r)
  ELSE Append(InsertTier(SubSeq(sorted, 1, Len(sorted) - 1), r),
              sorted[Len(sorted)])

RECURSIVE SortRewards(_)
SortRewards(rewards) ==
  IF rewards = << >> THEN << >>
  ELSE InsertTier(SortRewards(SubSeq(rewards, 1, Len(rewards) - 1)),
                  rewards[Len(rewards)])

\* The test of the loop, with <= in the place of <.
BelowOrAt(totalPoints, r) == totalPoints <= r.points_required

\*   if (totalPoints < r.points_required)
Below(totalPoints, r) == totalPoints < r.points_required

\*   for (let i = 0; i < rewards.length; i++) { ... break; }
\* from index i (counted from 1) on: the pair [prev, next] the loop leaves.
RECURSIVE FindFrom(_, _, _)
FindFrom(totalPoints, rewards, i) ==
  IF i > Len(rewards) THEN [prev |-> None, next |-> None]
  ELSE IF Below(totalPoints, rewards[i])
    THEN [prev |-> IF i > 1 THEN Some(rewards[i - 1]) ELSE None,
          next |-> Some(rewards[i])]
  ELSE FindFrom(totalPoints, rewards, i + 1)

\*   if (!next && rewards.length > 0) { prev = last; next = last; }
FindTiers(totalPoints, rewards) ==
  LET found == FindFrom(totalPoints, rewards, 1)
  IN IF found.next = None /\ Len(rewards) > 0
     THEN [prev |-> Some(rewards[Len(rewards)]),
           next |-> Some(rewards[Len(rewards)])]
     ELSE found

\*   percent = Math.max(0, Math.min(100, percent));
Clamp(percent) ==
  LET capped == IF PctLeq(Pct(100), percent) THEN Pct(100) ELSE percent
  IN IF PctLeq(capped, Pct(0)) THEN Pct(0) ELSE capped

\* The share of the segment that is left to do.
PercentLeft(totalPoints, startPoints, endPoints) ==
  IF endPoints > startPoints
  THEN Clamp(<< (endPoints - totalPoints) * 100, endPoints - startPoints >>)
  ELSE Pct(100)

\* A bar that stays empty past the last tier.
PercentNeverFull(totalPoints, startPoints, endPoints) ==
  IF endPoints > startPoints
  THEN Clamp(<< (totalPoints - startPoints) * 100, endPoints - startPoints >>)
  ELSE Pct(0)

\*   if (endPoints > startPoints)
\*     percent = ((totalPoints - startPoints) / (endPoints - startPoints)) * 100;
\*   else percent = 100;
\*   percent = Math.max(0, Math.min(100, percent));
Percent(totalPoints, startPoints, endPoints) ==
  Clamp(IF endPoints > startPoints
        THEN << (totalPoints - startPoints) * 100, endPoints - startPoints >>
        ELSE Pct(100))

\*   const startPoints = prev ? prev.points_required : 0;
PointsOf(tier) == IF tier = None THEN 0 ELSE Val(tier).points_required

\* The page arrives with its data attributes; the handler has not run.
Loaded(totalPoints, rewards, before) ==
  [pc |-> "loaded", totalPoints |-> totalPoints, rewards |-> rewards,
   prev |-> None, next |-> None, width |-> None, text |-> None,
   startEl |-> "blank", endEl |-> "blank", before |-> before]

OtherThanBar ==
  << variant, users, quests, global_progress, pending_photos, photos,
     pendingSeq, photoSeq, blobs, blobSeq, reqs, resp, hist, userSeq,
     questSeq, minted >>

\* Lines 7-12: the data attributes are read and the tiers sorted.
BarSort ==
  /\ bar.pc = "loaded"
  /\ bar' = [bar EXCEPT !.pc = "sorted", !.rewards = SortRewards(@)]
  /\ UNCHANGED OtherThanBar

\* Lines 14-30: prev and next.
BarFind ==
  /\ bar.pc = "sorted"
  /\ bar' = [bar EXCEPT !.pc = "found",
                        !.prev = FindTiers(bar.totalPoints, bar.rewards).prev,
                        !.next = FindTiers(bar.totalPoints, bar.rewards).next]
  /\ UNCHANGED OtherThanBar

\* Lines 32-70: the width, the text "n/goal" and the icons (of a tier, or
\* the default one).
BarUpdate ==
  /\ bar.pc = "found"
  /\ IF Len(bar.rewards) = 0
     THEN bar' = [bar EXCEPT !.pc = "done", !.width = Pct(0),
                             !.text = << bar.totalPoints >>,
                             !.startEl = "default", !.endEl = "empty"]
     ELSE bar' = [bar EXCEPT
            !.pc = "done",
            !.width = Percent(bar.totalPoints, PointsOf(bar.prev),
                              PointsOf(bar.next)),
            !.text = IF bar.next # None
                     THEN << IF bar.totalPoints < PointsOf(bar.next)
                             THEN bar.totalPoints ELSE PointsOf(bar.next),
                             PointsOf(bar.next) >>
                     ELSE << bar.totalPoints >>,
            !.startEl = IF bar.prev = None THEN "default" ELSE "tier",
            !.endEl = IF bar.next = None THEN "default" ELSE "tier"]
  /\ UNCHANGED OtherThanBar

\* The page is loaded again after the total has grown (the total never goes
\* down); the rewards are the same.  before keeps what the bar showed.
BarReload(totalPoints) ==
  /\ bar.pc = "done"
  /\ totalPoints > bar.totalPoints
  /\ bar' = Loaded(totalPoints, bar.rewards,
                   Some([totalPoints |-> bar.totalPoints, prev |-> bar.prev,
                         next |-> bar.next, width |-> bar.width]))
  /\ UNCHANGED OtherThanBar

InitBar ==
  /\ variant = "hub"
  /\ users = InitUsers
  /\ quests = InitQuests
  /\ global_progress = {[id |-> 1, points |-> 0]}
  /\ pending_photos = {}
  /\ photos = {}
  /\ pendingSeq = 0
  /\ photoSeq = 0
  /\ blobs = {}
  /\ blobSeq = 0
  /\ reqs = EmptyBag
  /\ resp = NoResp
  /\ hist = [i \in PendingIds |-> [st |-> "none", due |-> 0]]
  /\ userSeq = 2
  /\ questSeq = 2
  /\ minted = 0
  /\ bar \in { Loaded(t, r, None) : t \in Totals, r \in RewardLists }

NextBar ==
  \/ BarSort
  \/ BarFind
  \/ BarUpdate
  \/ \E totalPoints \in Totals : BarReload(totalPoints)

SpecBar == InitBar /\ [][NextBar]_vars

\* ============================================================ the gates
\* The requests here carry both cookies the server sets: device_token and
\* user_id (set by /login, cleared by /logout).
UserIdCookies == {None} \cup { Some(u.id) : u \in InitUsers }

\* A resolver that trusts the user_id cookie when there is one.
RequestUserByCookie(token, user_id) ==
  IF user_id = None THEN UsersByDevice(token)
  ELSE { u \in users : u.id = Val(user_id) }

\* The accounts the gates may get for a request with these cookies:
\*   const user = await getUserByDevice(req.deviceToken);
\* req.cookies.user_id is read nowhere.
RequestUser(token, user_id) == UsersByDevice(token)

\* What a gate answers, or "next" when the handler goes on.
\*   requireLogin:  if (!user) return res.redirect('/');
\*   requireAdmin:  that, then 403 unless user.username === 'Nicolas';
\*   POST /upload:  if (!user) return res.status(403).send(...), once the
\*                  file is there.
Decisions(route, token, user_id) ==
  IF RequestUser(token, user_id) = {}
  THEN { IF route = "upload" THEN "403" ELSE "302:/" }
  ELSE IF route = "admin"
    THEN { IF RequireAdmin(u) = "pass" THEN "next" ELSE RequireAdmin(u)
           : u \in RequestUser(token, user_id) }
  ELSE { "next" }

GateRoutes == {"view", "upload", "admin"}

GateResp(route, status, token, user_id) ==
  [route |-> route, status |-> status, fault |-> FALSE,
   token |-> token, user_id |-> user_id]

\* A request reaches the gate of its route and gets the gate's decision.
Gate(route, token, user_id) ==
  /\ \E d \in Decisions(route, token, user_id) :
       Answer(GateResp(route, d, token, user_id))
  /\ UNCHANGED << variant, bar, ident, store, hist >>

NextGate ==
  \/ \E cookie \in {Some("dU"), Some("dX")}, login \in SessionLogins :
       LoginStart(cookie, login[1], login[2])
  \/ \E q \in InFlight : LoginBind(q)
  \/ \E q \in InFlight : LoginFail(q)
  \/ Moderated /\ \E cookie \in {Some("dU"), Some("dX")} : Logout(cookie)
  \/ Moderated /\ \E route \in GateRoutes, token \in Tokens,
                     user_id \in UserIdCookies : Gate(route, token, user_id)

SpecGate == InitApp /\ [][NextGate]_vars

\* ================================================ deleting an account
\* The moderation of Alice's upload with two requests in flight, and the
\* admin deleting her account at any moment.
NextCascade ==
  \/ \E file \in AppFiles : UploadStart("dU", file)
  \/ \E q \in InFlight : UploadStore(q)
  \/ \E q \in InFlight, raw \in {None, Some(<<"1">>)} : UploadInsert(q, raw)
  \/ \E id \in PendingIds : ApproveStart("dA", id)
  \/ \E q \in InFlight : ApproveSelect(q)
  \/ \E q \in InFlight : ApproveQuest(q)
  \/ \E q \in InFlight : ApproveInsert(q)
  \/ \E q \in InFlight : ApproveUpdate(q)
  \/ \E q \in InFlight : ApproveDelete(q)
  \/ \E q \in InFlight : ApproveCommit(q)
  \/ \E q \in InFlight : ApproveFail(q)
  \/ \E id \in PendingIds : RejectStart("dA", id)
  \/ \E q \in InFlight : RejectSelect(q)
  \/ \E q \in InFlight : RejectDelete(q)
  \/ \E q \in InFlight : RejectCommit(q)
  \/ \E q \in InFlight : RejectFail(q)
  \/ \E id \in 1..MaxUserIds : DeleteUser("dA", id)

SpecCascade == Init /\ [][NextCascade]_vars

\* ===================================================== the fair server
\* The moderation routes under the assumptions of a working deployment: the
\* admin (device dA) keeps deciding, by approve or by reject, on every item
\* the admin page lists, and the store and the blob host do not fail for
\* ever: each step of a handler that keeps being possible is eventually
\* taken without a failure.
AdminDecides(id) ==
  /\ PendingById(id) # {}
  /\ ApproveStart("dA", id) \/ RejectStart("dA", id)

Responds(q) ==
  /\ \/ ApproveSelect(q) \/ ApproveQuest(q) \/ ApproveInsert(q)
     \/ ApproveUpdate(q) \/ ApproveDelete(q) \/ ApproveCommit(q)
     \/ RejectSelect(q) \/ RejectDelete(q) \/ RejectCommit(q)
  /\ ~resp'.fault

\* The awaits of the two handlers that decide on a pending item.
DecisionSteps ==
  ({"approve"} \X {"select", "quest", "insert", "update", "delete", "commit"})
    \cup ({"reject"} \X {"rsel", "rdel", "rcommit"})

Fairness ==
  /\ \A id \in PendingIds : SF_vars(Idle /\ AdminDecides(id))
  /\ \A step \in DecisionSteps :
       SF_vars(\E q \in InFlight :
                 q.kind = step[1] /\ q.pc = step[2] /\ Responds(q))

\* One request at a time: Alice (device dU) uploads, the admin approves,
\* rejects or deletes Alice's account.
NextLive ==
  \/ Idle /\ \E file \in AppFiles : UploadStart("dU", file)
  \/ \E q \in InFlight : UploadStore(q)
  \/ \E q \in InFlight, raw \in {None, Some(<<"1">>)} : UploadInsert(q, raw)
  \/ Idle /\ \E id \in PendingIds : ApproveStart("dA", id)
  \/ \E q \in InFlight : ApproveSelect(q)
  \/ \E q \in InFlight : ApproveQuest(q)
  \/ \E q \in InFlight : ApproveInsert(q)
  \/ \E q \in InFlight : ApproveUpdate(q)
  \/ \E q \in InFlight : ApproveDelete(q)
  \/ \E q \in InFlight : ApproveCommit(q)
  \/ \E q \in InFlight : ApproveFail(q)
  \/ Idle /\ \E id \in PendingIds : RejectStart("dA", id)
  \/ \E q \in InFlight : RejectSelect(q)
  \/ \E q \in InFlight : RejectDelete(q)
  \/ \E q \in InFlight : RejectCommit(q)
  \/ \E q \in InFlight : RejectFail(q)
  \/ Idle /\ DeleteUser("dA", 2)

SpecLive == Init /\ [][NextLive]_vars /\ Fairness

\* ================================================================ claims
\* The blob a pending row names: its filename under the pending folder.
BlobOf(row) == [folder |-> "pending_uploads", name |-> row.filename]

\* The pending ids whose approval has committed, and the points their
\* approvals were due.
ApprovedIds == { i \in PendingIds : hist[i].st = "approved" }

RECURSIVE SumDue(_)
SumDue(S) ==
  IF S = {} THEN 0
  ELSE LET i == CHOOSE x \in S : TRUE IN hist[i].due + SumDue(S \ {i})

\* Request q ends in this step.
Ends(q) == reqs' = reqs (-) SetToBag({q})

\* The moderation tables are as they were.
ModerationUnchanged == UNCHANGED << photos, global_progress, pending_photos >>

\* C1: a successful Approve(id) adds exactly one gallery row carrying the
\* pending row's filename, url, owner and capture timestamp, raises the
\* progress total by exactly the points of the row's quest (0 without a
\* quest, for a missing quest, for points that are not positive), and the
\* pending row is gone.
C1_ApproveEffects ==
  [][ \A q \in InFlight :
        ApproveCommit(q) =>
          /\ \E p \in photos' :
               /\ p \notin photos
               /\ photos' = photos \cup {p}
               /\ p.filename = Val(q.row).filename
               /\ p.url = Val(q.row).url
               /\ p.user_id = Val(q.row).user_id
               /\ p.taken_at = Val(q.row).taken_at
          /\ TotalPoints' = TotalPoints + Worth(Val(q.row).quest_id)
          /\ \A p \in pending_photos' : p.id # q.id ]_vars

\* C2: an Approve of a pending id that ends with a server error leaves the gallery, the
\* progress total and the pending row as they were, and the error is a
\* failure of the store, not the outcome the handler's own statements have
\* every time, so that a retry can succeed.
C2_ApproveFailureRetry ==
  [][ \A q \in InFlight :
        (/\ q.kind = "approve" /\ PendingById(q.id) # {}
         /\ Ends(q) /\ resp'.status = "500") =>
          /\ ModerationUnchanged
          /\ resp'.fault ]_vars

\* C3: of the Approve calls on one pending id ("hub", the revision that
\* locks the row alone), one commits and one that looks the row up
\* afterwards gets 404; the item has one gallery row at most and the
\* progress total holds the points of every approved item exactly once.
C3_ConcurrentApprove ==
  [][ variant = "hub" =>
        /\ \A q \in InFlight :
             (ApproveSelect(q) /\ hist[q.id].st = "approved")
               => resp' = Resp("approve", "404")
        /\ \A p1 \in photos', p2 \in photos' :
             p1.filename = p2.filename => p1 = p2
        /\ TotalPoints' = SumDue(ApprovedIds)' ]_vars

\* C4: in every committed state no photo is both pending and in the
\* gallery, the row an in-flight Approve has locked is still pending (so a
\* rollback never finds it missing from both), and the progress total holds
\* no credit of an item that is still pending.
C4_NoIntermediateState ==
  /\ \A p \in pending_photos, g \in photos : p.filename # g.filename
  /\ \A q \in InFlight :
       (q.kind = "approve" /\ q.row # None) => Val(q.row) \in pending_photos
  /\ TotalPoints <= SumDue(ApprovedIds)

\* C4 witness: an Approve has inserted, credited and deleted inside its
\* transaction and has not committed yet.
C4_Witness ==
  \E q \in InFlight :
    /\ q.kind = "approve" /\ q.pc = "commit"
    /\ q.tx.photo # None /\ q.tx.credit > 0 /\ q.tx.del
    /\ photos = {}

\* C5: once an item is approved or rejected it stays so, and an Approve or
\* Reject that looks its row up afterwards returns 404 and changes neither
\* the gallery, the progress total nor the pending queue.
C5_TerminalOutcomes ==
  [][ /\ \A i \in PendingIds :
           hist[i].st \in {"approved", "rejected"} => hist'[i].st = hist[i].st
      /\ \A q \in InFlight :
           (/\ q.kind \in {"approve", "reject"}
            /\ hist[q.id].st \in {"approved", "rejected"}
            /\ ApproveSelect(q) \/ RejectSelect(q))
             => resp'.status = "404" /\ ModerationUnchanged ]_vars

\* C6: a Reject that finds the row deletes it and leaves the gallery and the
\* progress total alone; a Reject that finds no row with the id answers 404
\* and changes nothing.
C6_Reject ==
  [][ \A q \in InFlight :
        /\ (RejectSelect(q) /\ PendingById(q.id) = {})
             => resp' = Resp("reject", "404") /\ UNCHANGED store
        /\ (RejectCommit(q) \/ (RejectDelete(q) /\ Ends(q)))
             => /\ \A p \in pending_photos' : p.id # q.id
                /\ UNCHANGED << photos, global_progress >>
                /\ resp' = Resp("reject", "302:/admin") ]_vars

\* C7: when the blob deletion of a DeleteGalleryPhoto has been attempted,
\* whether it succeeded or failed, the operation does not return with the
\* gallery row still there.
C7_DeleteRegardless ==
  [][ \A q \in InFlight :
        (DeletePhotoDestroy(q) /\ Ends(q))
          => \A p \in photos' : p.id # q.id ]_vars

\* C8: a pending row is written only after its blob is stored, a failed
\* blob upload ends the request with a server error and writes no row, and
\* every pending row names a blob the blob host holds.
C8_BlobBeforeRow ==
  [][ /\ \A p \in pending_photos' : BlobOf(p) \in blobs' /\ p.url = BlobOf(p)
      /\ \A p \in pending_photos' \ pending_photos : BlobOf(p) \in blobs
      /\ \A q \in InFlight :
           (UploadStore(q) /\ blobs' = blobs)
             => /\ Ends(q)
                /\ resp' = FaultResp("upload", "500")
                /\ pending_photos' = pending_photos ]_vars

\* C8 witness: an upload has just written its pending row, after its blob.
C8_Witness ==
  /\ resp = Resp("upload", "302:/toilet-app")
  /\ \E p \in pending_photos : BlobOf(p) \in blobs

\* C9: an upload whose content type is neither JPEG nor PNG, or whose size
\* exceeds 5 MiB, is answered without the request ever reaching the blob
\* upload: nothing is stored, no row is written, whoever sends it.
C9_BadFileRefused ==
  [][ \A token \in Tokens, file \in Files :
        (/\ \/ file.mimetype \notin {"image/jpeg", "image/png"}
            \/ file.size > 5 * 1024 * 1024
         /\ UploadStart(token, file))
          => reqs' = reqs /\ UNCHANGED store ]_vars

\* C9 witness: multer has refused a file ("hub" answers an upload with a
\* 500 that no dependency caused in that case only); nothing is stored.
C9_Witness ==
  /\ variant = "hub"
  /\ resp = Resp("upload", "500")
  /\ blobs = {} /\ pending_photos = {} /\ reqs = EmptyBag

\* The device token is bound to no account.
Unbound(token) ==
  \A u \in users : \A i \in 1..Len(u.devices) : u.devices[i] # token

\* The request carries a file of an allowed type and size.
AllowedFile(file) ==
  /\ file # NoFile
  /\ file.mimetype \in {"image/jpeg", "image/png"}
  /\ file.size <= 5 * 1024 * 1024

\* C10 (as stated): every upload from a device token bound to no account is
\* answered 403 and writes no row and stores no blob.
C10_UnboundForbidden ==
  [][ \A token \in Tokens, file \in Files \cup {NoFile} :
        (Unbound(token) /\ UploadStart(token, file))
          => /\ resp' = Resp("upload", "403")
             /\ reqs' = reqs /\ UNCHANGED store ]_vars

\* C10 (amended): an upload from a device token bound to no account writes
\* no row and stores no blob, and it is answered 403 when it carries a file
\* of an allowed type and size.
C10_UnboundUpload ==
  [][ \A token \in Tokens, file \in Files \cup {NoFile} :
        (Unbound(token) /\ UploadStart(token, file))
          => /\ AllowedFile(file) => resp' = Resp("upload", "403")
             /\ reqs' = reqs /\ UNCHANGED store ]_vars

\* C10 witness: an upload has been answered 403 and nothing is stored.
C10_Witness ==
  /\ resp = Resp("upload", "403")
  /\ blobs = {} /\ pending_photos = {} /\ photos = {}

\* ---------------------------------------------------------------- C11
\* The steps of POST /upload: a response of the route goes out, or a request
\* of the route enters, moves on or ends.
UploadActs ==
  \/ resp'.route = "upload"
  \/ \E q \in BagToSet(reqs) \cup BagToSet(reqs') :
       q.kind = "upload" /\ CopiesIn(q, reqs') # CopiesIn(q, reqs)

\* C11: no step of an upload, successful or failed, changes the gallery
\* (photos) or the shared progress total (global_progress).
C11_UploadFrame ==
  [][ UploadActs => UNCHANGED << photos, global_progress >> ]_vars

\* ---------------------------------------------------------------- C12
\* A quest reference is numeric when it is a non-empty string of digits; the
\* value the claim expects in the row: that integer, null otherwise.
NumericRef(raw) ==
  /\ raw # None /\ Val(raw) # << >>
  /\ \A i \in 1..Len(Val(raw)) : Val(raw)[i] \in Digits

ExpectedQuestId(raw) ==
  IF NumericRef(raw) THEN Some(DecValue(Val(raw), 0)) ELSE None

\* C12: when the INSERT of an upload by a logged-in identity runs with the
\* store up, the upload succeeds whatever the quest reference is, and the
\* row holds the reference as an integer when it is numeric and null when it
\* is absent, empty or not numeric.
C12_QuestReference ==
  [][ \A q \in InFlight, raw \in QuestIdInputs :
        UploadInsert(q, raw) /\ UserExists(q.user) /\ ~resp'.fault
          => /\ resp' = Resp("upload", "302:/toilet-app")
             /\ \E p \in pending_photos' \ pending_photos :
                  p.quest_id = ExpectedQuestId(raw) ]_vars

\* ---------------------------------------------------------------- C13
\* C13: the progress total the pages read never decreases, whatever the
\* operation: no step takes it below its value before the step.
C13_Monotone == [][ TotalPoints' >= TotalPoints ]_vars

\* An approval of an item whose quest is worth a negative amount has gone
\* past its UPDATE step and is about to commit, with the progress row there.
C13_Witness ==
  /\ global_progress # {}
  /\ \E q \in InFlight : q.kind = "approve" /\ q.pc = "commit" /\ q.pts < 0

\* ---------------------------------------------------------------- C14
\* C14: in every reachable state global_progress holds exactly one row, the
\* row with id 1 that Approve increments and the pages read, and the total
\* holds the credit of every committed approval of a quest worth p > 0.
C14_SingleProgressRow ==
  /\ Cardinality(global_progress) = 1
  /\ \A g \in global_progress : g.id = 1
  /\ \A i \in ApprovedIds : hist[i].due > 0 => TotalPoints >= hist[i].due

\* ---------------------------------------------------------------- C15
\* C15: the progress table changes only in the step that commits the
\* approval of an item linked to a quest; every other step (reject, photo
\* delete, upload, user create and delete, quest create, login, logout, the
\* refresh of the weekly quests, approval of an item without a quest) leaves
\* it as it was.
C15_OnlyQuestApprovals ==
  [][ global_progress' # global_progress
        => \E q \in InFlight :
             /\ q.kind = "approve" /\ q.pc = "commit" /\ Ends(q)
             /\ resp' = Resp("approve", "302:/admin")
             /\ Val(q.row).quest_id # None ]_vars

\* Points have been credited, and an account has then been deleted with
\* the total as it was.
C15_Witness ==
  /\ TotalPoints = 5
  /\ resp = Resp("deleteUser", "302:/admin")

\* ---------------------------------------------------------------- C16
\* C16: under the fairness of SpecLive every pending row is eventually gone
\* from the queue, promoted by Approve or deleted by Reject or with its
\* owner (or the photo ids of the model are used up).
C16_EventuallyDecided ==
  \A i \in PendingIds :
    (PendingById(i) # {}) ~> (PendingById(i) = {} \/ photoSeq = MaxPhotoIds)

\* ---------------------------------------------------------------- C17
\* C17: a row enters the gallery only in the step that commits an Approve,
\* and it is the row that approval made from the pending row it had locked.
C17_GalleryOnlyByApprove ==
  [][ \A p \in photos' \ photos :
        \E q \in InFlight :
          /\ q.kind = "approve" /\ q.pc = "commit" /\ Ends(q)
          /\ q.tx.photo = Some(p)
          /\ p.filename = Val(q.row).filename ]_vars

C19_TokenIssuance ==
  [][ "mw" \in DOMAIN resp' =>
        /\ resp'.mw.cookie = None =>
             /\ resp'.mw.set
             /\ resp'.mw.token # None
             /\ Val(resp'.mw.token) \notin KnownTokens
             /\ \A u \in users' : \A i \in 1..Len(u.devices) :
                  u.devices[i] # Val(resp'.mw.token)
        /\ resp'.mw.cookie # None =>
             /\ ~resp'.mw.set
             /\ resp'.mw.token = resp'.mw.cookie
             /\ minted' = minted ]_vars

\* A token has been minted for a request without one, and a later request
\* has carried it back.
C19_Witness ==
  /\ "mw" \in DOMAIN resp
  /\ minted = 1
  /\ resp.mw.cookie = Some(MintPool[1])

\* ---------------------------------------------------------------- C20
\* How often the token occurs among the devices.
Occurrences(devices, token) ==
  Cardinality({ i \in 1..Len(devices) : devices[i] = token })

\* C20: when a login of an account that exists completes, the account's
\* devices hold the request's token exactly once, and they are what they
\* were before when the token was already among them; no account ever has
\* a token twice.
C20_BindIdempotent ==
  [][ /\ \A q \in InFlight :
           (q.kind = "login" /\ Ends(q) /\ resp' = LoginResp(q))
             => \A u \in users : u.id = q.user =>
                  \E v \in users' :
                    /\ v.id = u.id
                    /\ Occurrences(v.devices, q.tok) = 1
                    /\ Occurrences(u.devices, q.tok) = 1 => v = u
                    /\ Occurrences(u.devices, q.tok) = 0
                         => v.devices = Append(u.devices, q.tok)
      /\ \A v \in users', token \in KnownTokens :
           Occurrences(v.devices, token) <= 1 ]_vars

\* Alice has logged in once more on dU, the device she was already bound
\* to, and on no other: her devices are the one token they were.
C20_Witness ==
  /\ resp = [route |-> "login", status |-> "302:/", fault |-> FALSE, user_id |-> 2]
  /\ \E u \in users : u.id = 2 /\ u.devices = << "dU" >>

\* ---------------------------------------------------------------- C21
\* The devices of u are still bound to the account after the step, in the
\* order they had.
KeepsDevices(u) ==
  \E v \in users' :
    /\ v.id = u.id
    /\ Len(v.devices) >= Len(u.devices)
    /\ SubSeq(v.devices, 1, Len(u.devices)) = u.devices

\* C21: no step of a login, a logout or a page takes a token away from an
\* account, and the login that completes changes the devices of no account
\* but its own, also when the token is already bound to another account.
C21_NeverRebound ==
  [][ /\ \A u \in users : KeepsDevices(u)
      /\ \A q \in InFlight :
           (q.kind = "login" /\ Ends(q) /\ resp' = LoginResp(q))
             => \A u \in users : u.id # q.user => u \in users' ]_vars

\* Nicolas has logged in on dU, the device bound to Alice: it is now bound
\* to both.
C21_Witness ==
  /\ resp = [route |-> "login", status |-> "302:/", fault |-> FALSE, user_id |-> 1]
  /\ \E u \in users : u.id = 2 /\ u.devices = << "dU" >>
  /\ \E u \in users : u.id = 1 /\ u.devices = << "dA", "dU" >>

\* ---------------------------------------------------------------- C22
\* The token resolves to no account or to an account that is not the admin.
NotAdmin(token) == \A u \in UsersByDevice(token) : u.username # AdminName

\* A request with this token arrives at one of the admin routes.
AdminRequest(token) ==
  \/ \E id \in PendingIds : ApproveStart(token, id) \/ RejectStart(token, id)
  \/ \E id \in PhotoIds : DeletePhotoStart(token, id)
  \/ \E username \in {None, Some("Bob")} : CreateUser(token, username, Some("pwB"))
  \/ \E id \in 2..MaxUserIds : DeleteUser(token, id)
  \/ \E form \in QuestForms : CreateQuest(token, form)
  \/ \E day \in Days : AdminPage(token, day)

\* C22: a request to an admin route whose token does not resolve to the
\* admin is answered 403, never with a redirect, logged in or not.
C22_NonAdminForbidden ==
  [][ \A token \in AppAdmins :
        (NotAdmin(token) /\ AdminRequest(token)) => resp'.status = "403" ]_vars

\* ---------------------------------------------------------------- C23
\* The account the admin name designates holds the token.
AdminHolds(token) ==
  \E u \in users : /\ u.username = AdminName
                   /\ \E i \in 1..Len(u.devices) : u.devices[i] = token

AdminTablesChange ==
  << pending_photos, photos, global_progress, users, quests >>' #
  << pending_photos, photos, global_progress, users, quests >>

\* C23: a step of approve, reject, photo delete, user create, user delete or
\* quest create that changes the pending photos, the gallery, the progress
\* row, the accounts or the quests belongs to a request whose token is held
\* by the account named as the admin.
C23_AdminOnly ==
  [][ AdminTablesChange =>
        /\ \A q \in InFlight :
             ( /\ q.kind \in {"approve", "reject", "deletePhoto"}
               /\ CopiesIn(q, reqs') < CopiesIn(q, reqs) ) => AdminHolds(q.tok)
        /\ resp'.route = "createUser" =>
             \A token \in AppAdmins :
               CreateUser(token, Some("Bob"), Some("pwB")) => AdminHolds(token)
        /\ resp'.route = "deleteUser" =>
             \A token \in AppAdmins, id \in 2..MaxUserIds :
               DeleteUser(token, id) => AdminHolds(token)
        /\ resp'.route = "createQuest" =>
             \A token \in AppAdmins, form \in QuestForms :
               CreateQuest(token, form) => AdminHolds(token) ]_vars

\* The admin has approved a photo on this very step of the hub, with the
\* account of another name present and bound to its own device.
C23_Witness ==
  /\ resp.route = "approve" /\ resp.status = "302:/admin"
  /\ photos # {}
  /\ \E u \in users : u.username # AdminName /\ u.devices # << >>

\* ---------------------------------------------------------------- C24
\* C24: on the page the hub renders after the recomputation of the day, a
\* weekly quest is among the listed quests exactly when its window has both
\* bounds and start_at <= today <= end_at, whatever its flag was before.
C24_WeeklyListing ==
  [][ (variant = "hub" /\ resp'.route = "toilet-app" /\ resp'.status = "200") =>
        \A token \in AppAdmins, day \in Days, hour \in Hours :
          ToiletApp(token, day, hour) =>
            \A k \in quests' :
              k.type = "3" =>
                (k.id \in resp'.weeklyQuests <=> Between(day, k.start_at, k.end_at)) ]_vars

\* ---------------------------------------------------------------- C25
\* The handler has run to its end on a page with tiers.
BarDone == bar.pc = "done"

\* The places in the sorted list of the tiers whose threshold is above the
\* total.
Above == { i \in 1..Len(bar.rewards) :
             bar.rewards[i].points_required > bar.totalPoints }

FirstAbove == CHOOSE i \in Above : \A j \in Above : i <= j

\* C25: with a tier list that is not empty and has a threshold above the
\* total T, next is the first tier with a threshold above T, prev the tier
\* just before it (none, counted as 0, when next is the first tier), and the
\* width is (T - prev) / (next - prev) * 100 kept within 0 and 100; a total
\* equal to the threshold of prev gives 0.
C25_Segment ==
  (BarDone /\ Above # {}) =>
    LET next == bar.rewards[FirstAbove]
        base == IF FirstAbove = 1 THEN 0
                ELSE bar.rewards[FirstAbove - 1].points_required
        n == (bar.totalPoints - base) * 100
        d == next.points_required - base
    IN /\ bar.next = Some(next)
       /\ bar.prev = IF FirstAbove = 1 THEN None
                     ELSE Some(bar.rewards[FirstAbove - 1])
       /\ d > 0
       /\ IF n < 0 THEN PctIs(bar.width, 0)
          ELSE IF n > 100 * d THEN PctIs(bar.width, 100)
          ELSE bar.width[1] * d = n * bar.width[2]
       /\ (FirstAbove > 1 /\ bar.totalPoints = base) => PctIs(bar.width, 0)

\* The total has just reached the first of two tiers: the bar shows 0 on
\* the way to the second.
C25_Witness ==
  /\ BarDone /\ bar.totalPoints = 2
  /\ bar.rewards = << Tier(2, 2), Tier(1, 3) >>
  /\ bar.prev = Some(Tier(2, 2)) /\ bar.next = Some(Tier(1, 3))
  /\ PctIs(bar.width, 0)

\* ---------------------------------------------------------------- C26
\* C26: with a tier list that is not empty and a total that meets or exceeds
\* every threshold, prev and next are both the last tier and the width is
\* 100; with no tier the width is 0.
C26_AllReached ==
  BarDone =>
    /\ (Len(bar.rewards) > 0 /\ Above = {}) =>
         /\ bar.prev = Some(bar.rewards[Len(bar.rewards)])
         /\ bar.next = Some(bar.rewards[Len(bar.rewards)])
         /\ PctIs(bar.width, 100)
    /\ Len(bar.rewards) = 0 => PctIs(bar.width, 0)

\* The total is past both tiers.
C26_Witness ==
  /\ BarDone /\ bar.totalPoints = 4
  /\ bar.rewards = << Tier(1, 1), Tier(2, 3) >>
  /\ bar.next = Some(Tier(2, 3)) /\ PctIs(bar.width, 100)

\* ---------------------------------------------------------------- C27
\* The total meets or exceeds the highest threshold: the width is 100.
FullAtTop ==
  (BarDone /\ Len(bar.rewards) > 0 /\ Above = {}) => PctIs(bar.width, 100)

\* C27, as stated: with the same tiers and a greater total, the width is at
\* least what it was, and it is 100 once the total is the highest threshold
\* or more.
C27_NonDecreasing ==
  /\ (BarDone /\ bar.before # None) => PctLeq(Val(bar.before).width, bar.width)
  /\ FullAtTop

\* C27, amended: with the same tiers and a greater total, the width is at
\* least what it was as long as prev and next are the same tiers as before,
\* and it is 100 once the total is the highest threshold or more.
C27_NonDecreasingInSegment ==
  /\ ( /\ BarDone /\ bar.before # None
       /\ Val(bar.before).prev = bar.prev
       /\ Val(bar.before).next = bar.next )
       => PctLeq(Val(bar.before).width, bar.width)
  /\ FullAtTop

\* The total went from 1 to 2 under one tier of 3: the bar has grown and is
\* not full.
C27_Witness ==
  /\ BarDone /\ bar.before # None
  /\ bar.rewards = << Tier(1, 3) >>
  /\ Val(bar.before).next = bar.next /\ Val(bar.before).prev = bar.prev
  /\ Val(bar.before).totalPoints = 1 /\ bar.totalPoints = 2
  /\ ~PctLeq(bar.width, Val(bar.before).width)
  /\ ~PctIs(bar.width, 100)

\* ---------------------------------------------------------------- C28
\* The accounts a step deletes.
Deleted == { u.id : u \in users } \ { u.id : u \in users' }

\* C28: the step that deletes an account removes every gallery row and every
\* pending row of that account and leaves the rows of the other accounts as
\* they were; after every step, each gallery row and each pending row has an
\* owner that exists.
C28_Cascade ==
  [][ /\ Deleted # {} =>
           /\ photos' = { p \in photos : p.user_id \notin Deleted }
           /\ pending_photos' = { p \in pending_photos : p.user_id \notin Deleted }
      /\ \A p \in photos' \cup pending_photos' :
           \E u \in users' : u.id = p.user_id ]_vars

\* Alice's account has just been deleted while she had a photo in the
\* gallery; the gallery is empty.
C28_Witness ==
  /\ resp = Resp("deleteUser", "302:/admin")
  /\ \A u \in users : u.id # 2
  /\ \E i \in PendingIds : hist[i].st = "approved"
  /\ photos = {}

\* ---------------------------------------------------------------- C29
\* Request q meets a request of the other kind on its pending id: one in
\* flight with it, or one that has decided the item already.
Contended(q) ==
  \/ \E o \in InFlight : /\ o.id = q.id
                         /\ o.kind \in {"approve", "reject"} \ {q.kind}
  \/ q.kind = "approve" /\ hist[q.id].st = "rejected"
  \/ q.kind = "reject" /\ hist[q.id].st = "approved"

\* What the end of q does when the item is still pending: the Approve puts
\* it in the gallery and credits its points, the Reject drops it.
TakesEffect(q) ==
  IF q.kind = "approve"
  THEN /\ hist'[q.id].st = "approved"
       /\ \E p \in photos' \ photos : p.filename = Val(q.row).filename
       /\ TotalPoints' = TotalPoints + Worth(Val(q.row).quest_id)
       /\ \A p \in pending_photos' : p.id # q.id
  ELSE /\ hist'[q.id].st = "rejected"
       /\ \A p \in pending_photos' : p.id # q.id
       /\ UNCHANGED << photos, global_progress >>

\* C29: of an Approve and a Reject that meet on one pending id, the one that
\* ends while the item is pending takes effect (gallery row and points
\* credited once, or the row dropped with no gallery row and no credit), and
\* the one that ends after the item is decided answers 404 and changes
\* nothing; no dependency fails.
C29_ApproveVersusReject ==
  [][ \A q \in InFlight :
        ( /\ q.kind \in {"approve", "reject"}
          /\ Ends(q) /\ ~resp'.fault
          /\ Contended(q)
          /\ hist[q.id].st # "none" )
          => IF hist[q.id].st = "pending"
             THEN TakesEffect(q)
             ELSE resp'.status = "404" /\ ModerationUnchanged ]_vars

\* ---------------------------------------------------------------- C30
\* C30: when a login of account U with device token t has succeeded, the
\* resolver has one answer for t, and it is U, whatever t and the devices of
\* U were bound to before.
C30_LoginResolves ==
  [][ \A q \in InFlight :
        (q.kind = "login" /\ Ends(q) /\ resp' = LoginResp(q))
          => /\ UsersByDevice(q.tok)' # {}
             /\ \A u \in UsersByDevice(q.tok)' : u.id = q.user ]_vars

\* ---------------------------------------------------------------- C31
\* No account has this username with this password.
BadLogin(username, password) ==
  \A u \in users : u.username = username => u.password_hash # Hash(password)

\* C31: a login with an unknown username or a password that does not verify
\* is answered 401, goes no further, and leaves the devices of every
\* account as they were.
C31_FailedLogin ==
  [][ \A cookie \in {Some("dU"), Some("dX")}, login \in SessionLogins :
        (BadLogin(login[1], login[2]) /\ LoginStart(cookie, login[1], login[2]))
          => /\ resp'.status = "401"
             /\ reqs' = reqs
             /\ users' = users ]_vars

\* A login from device dX was refused, and dX is bound to no account.
C31_Witness ==
  /\ resp.route = "login" /\ resp.status = "401"
  /\ resp.mw.token = Some("dX")
  /\ \A u \in users : \A i \in 1..Len(u.devices) : u.devices[i] # "dX"

\* ---------------------------------------------------------------- C33
\* C33: when the blob deletion of a DeleteGalleryPhoto resolves for a photo
\* of the gallery, the identifier it was given is the one the photo's blob
\* was stored under at upload, folder and name, and the blob host held that
\* blob until then.
C33_DestroyStoredBlob ==
  [][ \A q \in InFlight :
        ( /\ q.kind = "deletePhoto" /\ q.pc = "destroy"
          /\ DeletePhotoDestroy(q) /\ ~Ends(q) )
          => \A p \in PhotoById(q.id) :
               /\ DestroyTarget(q.upl) = p.url
               /\ p.url \in blobs
               /\ p.url \notin blobs' ]_vars

\* ---------------------------------------------------------------- C32
\* What the gate of a route may answer to the token when the request has no
\* user_id cookie: nothing, or "403" on the admin route, without an account
\* or with one that is not the admin.
ByToken(route, token) ==
  LET bound == { u \in users : \E i \in 1..Len(u.devices) : u.devices[i] = token }
  IN IF bound = {} THEN { IF route = "upload" THEN "403" ELSE "302:/" }
     ELSE IF route = "admin"
       THEN { IF u.username = AdminName THEN "next" ELSE "403" : u \in bound }
     ELSE { "next" }

\* C32: the decision of a gate is one the binding of the device token
\* allows, whatever user_id cookie the request carries or lacks; and a
\* logout leaves every binding, and so every decision, as it was.
C32_TokenOnly ==
  [][ /\ resp'.route \in GateRoutes =>
           \A route \in GateRoutes, token \in Tokens, user_id \in UserIdCookies :
             Gate(route, token, user_id) => resp'.status \in ByToken(route, token)
      /\ resp'.route = "logout" =>
           /\ users' = users
           /\ \A route \in GateRoutes, token \in Tokens :
                ByToken(route, token)' = ByToken(route, token) ]_vars

\* Device dU, bound to Alice alone, has asked for an admin route with the
\* user_id cookie of the admin and has been refused.
C32_Witness ==
  /\ resp.route = "admin" /\ resp.status = "403"
  /\ resp.token = "dU" /\ resp.user_id = Some(1)
  /\ \A u \in users : u.username = AdminName => u.devices = << "dA" >>

====
